---- MODULE Spec2Model ----
(***************************************************************************)
(* Record store (database.py) and incremental collection planner (main.py) *)
(* of the Meraki client counter.                                           *)
(*                                                                         *)
(* Text values (timestamps) are sequences of ASCII codes, so that SQLite's *)
(* BINARY collation (bytewise comparison) and Python's isoformat /         *)
(* fromisoformat are modelled by what they do to the characters.           *)
(* Instants are counted in ticks of half a second since                    *)
(* 2024-01-01T00:00:00 UTC.                                                *)
(***************************************************************************)
EXTENDS Integers, Naturals, Sequences, FiniteSets, Bags, TLC

\* ------------------------------------------------------------------ bounds
\* Longest batch handed to store_clients.
MaxBatch == 2
\* Number of store_clients calls in one behaviour.
MaxCalls == 2
\* Number of times the clock is advanced in one behaviour.
MaxTicks == 2

\* ------------------------------------------------------------- time, text
TicksPerMinute == 2 * 60
TicksPerHour == 60 * TicksPerMinute
TicksPerDay == 24 * TicksPerHour

\* Python's None / an SQL NULL, and the same where a text value is expected.
None == "None"
NoText == <<-1>>

Digit(d) == 48 + d
Pad2(n) == <<Digit(n \div 10), Digit(n % 10)>>

\* Calendar of 2024 (January to April), day of year counted from 0.
MonthOf(doy) == IF doy < 31 THEN 1 ELSE IF doy < 60 THEN 2 ELSE IF doy < 91 THEN 3 ELSE 4
DaysBefore(m) == IF m = 1 THEN 0 ELSE IF m = 2 THEN 31 ELSE IF m = 3 THEN 60 ELSE 91

\* "2024-MM-DDTHH:MM:SS" of the instant t.
IsoSeconds(t) ==
    LET doy == t \div TicksPerDay
        m == MonthOf(doy)
        d == doy - DaysBefore(m) + 1
        h == (t % TicksPerDay) \div TicksPerHour
        mi == (t % TicksPerHour) \div TicksPerMinute
        s == (t % TicksPerMinute) \div 2
    IN  <<50, 48, 50, 52, 45>> \o Pad2(m) \o <<45>> \o Pad2(d) \o <<84>>
        \o Pad2(h) \o <<58>> \o Pad2(mi) \o <<58>> \o Pad2(s)

\* datetime.isoformat() of a naive datetime: microseconds are printed, with
\* six digits, only when they are not zero.
IsoFormat(t) ==
    IsoSeconds(t) \o (IF t % 2 = 1 THEN <<46, 53, 48, 48, 48, 48, 48>> ELSE <<>>)

\* The notations in which the upstream API may write a lastSeen instant:
\* a "Z" suffix or an explicit "+00:00" offset, with milliseconds when the
\* instant has a fraction.
SuffixZ == <<90>>
SuffixUtc == <<43, 48, 48, 58, 48, 48>>
ApiStamp(t, suffix) ==
    IsoSeconds(t) \o (IF t % 2 = 1 THEN <<46, 53, 48, 48>> ELSE <<>>) \o suffix

\* SQLite's comparison of TEXT values under the BINARY collation: bytewise,
\* a proper prefix sorting first.
RECURSIVE TextLessFrom(_, _, _)
TextLessFrom(a, b, i) ==
    IF i > Len(b) THEN FALSE
    ELSE IF i > Len(a) THEN TRUE
    ELSE IF a[i] # b[i] THEN a[i] < b[i]
    ELSE TextLessFrom(a, b, i + 1)

TextLess(a, b) == TextLessFrom(a, b, 1)

TextLeq(a, b) == a = b \/ TextLess(a, b)

\* str.replace('Z', '')
RemoveZ(s) == SelectSeq(s, LAMBDA c : c # 90)

\* str.replace('+00:00', '')
RECURSIVE RemoveUtcOffset(_)
RemoveUtcOffset(s) ==
    IF Len(s) < 6 THEN s
    ELSE IF SubSeq(s, 1, 6) = SuffixUtc THEN RemoveUtcOffset(SubSeq(s, 7, Len(s)))
    ELSE <<Head(s)>> \o RemoveUtcOffset(Tail(s))

Num2(s, i) == (s[i] - 48) * 10 + (s[i + 1] - 48)

\* datetime.fromisoformat of "2024-MM-DDTHH:MM:SS[.fff[fff]]": the instant.
FromIsoFormat(s) ==
    LET m == Num2(s, 6)
        d == Num2(s, 9)
        millis == IF Len(s) > 19
                  THEN (s[21] - 48) * 100 + (s[22] - 48) * 10 + (s[23] - 48)
                  ELSE 0
    IN  (DaysBefore(m) + d - 1) * TicksPerDay + Num2(s, 12) * TicksPerHour
        + Num2(s, 15) * TicksPerMinute + Num2(s, 18) * 2 + millis \div 500

\* ------------------------------------------------------------------ state
VARIABLES
    clients,    \* committed rows of table clients (a bag: ids are never read)
    runs,       \* committed rows of table collection_runs, in id order
    txn,        \* rows inserted on self.conn and not yet committed (a bag)
    calls,      \* store_clients calls made so far; the number of a call
                \* stands for its collected_at, the clock reading at its start
    failed,     \* collected_at of the store_clients calls that raised
    now,        \* the clock, datetime.utcnow(), as an instant
    ticks,      \* times the clock was advanced
    ret,        \* the last operation and what it returned
    conns       \* the store_clients calls of connections of their own to the
                \* same database file, statement by statement

vars == <<clients, runs, txn, calls, failed, now, ticks, ret, conns>>

clock == <<now, ticks>>

\* What a statement on self.conn reads: committed rows and its own
\* uncommitted ones.
View == clients (+) txn

\* ------------------------------------------------------------ store_clients
\* network_id as store_clients extracts it from an API record.
NetworkId(client) == IF client.network.is_dict THEN client.network.id ELSE None
NetworkName(client) == IF client.network.is_dict THEN client.network.name ELSE None

RowOf(client, collected_at) ==
    [mac_address |-> client.mac, ip_address |-> client.ip,
     last_seen |-> client.lastSeen, network_id |-> NetworkId(client),
     network_name |-> NetworkName(client), collected_at |-> collected_at]

\* NOT NULL on mac_address and last_seen.
NotNullViolation(row) == row.mac_address = None \/ row.last_seen = NoText

\* UNIQUE(mac_address, last_seen, network_id): SQLite holds two NULLs to be
\* distinct, so a row with a NULL network_id never collides.
UniqueViolation(tbl, row) ==
    /\ row.network_id # None
    /\ \E r \in BagToSet(tbl) :
          /\ r.mac_address = row.mac_address
          /\ r.last_seen = row.last_seen
          /\ r.network_id = row.network_id

\* IntegrityError without the NOT NULL constraints.
IntegrityErrorUniqueOnly(tbl, row) == UniqueViolation(tbl, row)

IntegrityError(tbl, row) == NotNullViolation(row) \/ UniqueViolation(tbl, row)

\* The for loop of store_clients over the first n records of the batch:
\* the rows pending on the connection and the two counters after it.
RECURSIVE InsertLoop(_, _, _, _)
InsertLoop(batch, n, pending, collected_at) ==
    IF n = 0 THEN [pending |-> pending, new_records |-> 0, duplicate_records |-> 0]
    ELSE LET before == InsertLoop(batch, n - 1, pending, collected_at)
             row == RowOf(batch[n], collected_at)
         IN  IF IntegrityError(clients (+) before.pending, row)
             THEN [before EXCEPT !.duplicate_records = @ + 1]
             ELSE [before EXCEPT !.pending = @ (+) SetToBag({row}),
                                 !.new_records = @ + 1]

\* RunRow counting the distinct records of the batch.
RunRowOfDistinct(collected_at, batch, timespan_days) ==
    [run_timestamp |-> collected_at,
     clients_collected |-> Cardinality({batch[i] : i \in 1 .. Len(batch)}),
     timespan_days |-> timespan_days]

\* The collection_runs row of a call.
RunRow(collected_at, batch, timespan_days) ==
    [run_timestamp |-> collected_at, clients_collected |-> Len(batch),
     timespan_days |-> timespan_days]

\* store_clients(batch, ..., timespan_days) running to its return.
StoreReturns(batch, timespan_days) ==
    LET at == calls + 1
        done == InsertLoop(batch, Len(batch), txn, at)
    IN  /\ calls < MaxCalls
        /\ calls' = at
        /\ clients' = clients (+) done.pending
        /\ txn' = EmptyBag
        /\ runs' = Append(runs, RunRow(at, batch, timespan_days))
        /\ ret' = [op |-> "store_clients", raised |-> FALSE, batch |-> batch,
                   new_records |-> done.new_records,
                   duplicate_records |-> done.duplicate_records]
        /\ UNCHANGED <<conns, failed, clock>>

\* store_clients raising a storage error (any sqlite3.Error other than
\* IntegrityError) at its fail_at-th INSERT; the INSERT after the last record
\* is the one into collection_runs.  Nothing is caught and nothing is rolled
\* back by the code: the rows inserted so far stay pending on self.conn,
\* unless the engine itself rolled the transaction back (auto_rollback, as it
\* does on a full disk or an I/O error).
StoreRaises(batch, fail_at, auto_rollback) ==
    LET at == calls + 1
        done == InsertLoop(batch, fail_at - 1, txn, at)
    IN  /\ calls < MaxCalls
        /\ fail_at \in 1 .. Len(batch) + 1
        /\ calls' = at
        /\ txn' = IF auto_rollback THEN EmptyBag ELSE done.pending
        /\ failed' = failed \cup {at}
        /\ ret' = [op |-> "store_clients", raised |-> TRUE]
        /\ UNCHANGED <<conns, clients, runs, clock>>

\* close() followed by a new ClientDatabase on the same file: what was not
\* committed is gone.
Reopen ==
    /\ txn # EmptyBag
    /\ txn' = EmptyBag
    /\ ret' = [op |-> "reopen"]
    /\ UNCHANGED <<conns, clients, runs, calls, failed, clock>>

\* ---------------------------------------------------------------- queries
\* MAX(last_seen): the greatest text under the BINARY collation, NULL over
\* no rows.
MaxLastSeen(tbl) ==
    IF tbl = EmptyBag THEN NoText
    ELSE CHOOSE m \in {r.last_seen : r \in BagToSet(tbl)} :
            \A r \in BagToSet(tbl) : TextLeq(r.last_seen, m)

\* get_latest_client_timestamp()
GetLatestClientTimestamp ==
    /\ ret' = [op |-> "get_latest_client_timestamp", value |-> MaxLastSeen(View)]
    /\ UNCHANGED <<conns, clients, runs, txn, calls, failed, clock>>

\* SELECT DISTINCT over the columns the queries list (all but id and
\* collected_at).
SelectDistinct(rows) ==
    { [mac_address |-> r.mac_address, ip_address |-> r.ip_address,
       last_seen |-> r.last_seen, network_id |-> r.network_id,
       network_name |-> r.network_name] : r \in rows }

\* ORDER BY last_seen [DESC]: every order of the rows that is sorted on the
\* text of last_seen; rows with equal last_seen come in any order.
FirstRows(rows, desc) ==
    { m \in rows : \A x \in rows :
        IF desc THEN TextLeq(x.last_seen, m.last_seen)
        ELSE TextLeq(m.last_seen, x.last_seen) }

RECURSIVE OrderByLastSeen(_, _)
OrderByLastSeen(rows, desc) ==
    IF rows = {} THEN {<<>>}
    ELSE UNION { { <<m>> \o rest : rest \in OrderByLastSeen(rows \ {m}, desc) } :
                 m \in FirstRows(rows, desc) }

\* A fetched row as the API-shaped dict the queries return.
ClientDict(row) ==
    [mac |-> row.mac_address, ip |-> row.ip_address, lastSeen |-> row.last_seen,
     network |-> [is_dict |-> TRUE, id |-> row.network_id, name |-> row.network_name]]

ClientDicts(rows) == [i \in 1 .. Len(rows) |-> ClientDict(rows[i])]

\* WHERE last_seen >= ? AND last_seen <= ?, on text.
InDateRange(row, start_text, end_text) ==
    TextLeq(start_text, row.last_seen) /\ TextLeq(row.last_seen, end_text)

\* get_clients_in_date_range(start_date, end_date) with datetime arguments.
GetClientsInDateRange(start_date, end_date) ==
    LET start_text == IsoFormat(start_date)
        end_text == IsoFormat(end_date)
        hit == { r \in BagToSet(View) : InDateRange(r, start_text, end_text) }
    IN  /\ \E rows \in OrderByLastSeen(SelectDistinct(hit), FALSE) :
              ret' = [op |-> "get_clients_in_date_range", start_date |-> start_date,
                      end_date |-> end_date, clients |-> ClientDicts(rows)]
        /\ UNCHANGED <<conns, clients, runs, txn, calls, failed, clock>>

\* get_all_clients()
GetAllClients ==
    /\ \E rows \in OrderByLastSeen(SelectDistinct(BagToSet(View)), TRUE) :
          ret' = [op |-> "get_all_clients", clients |-> ClientDicts(rows)]
    /\ UNCHANGED <<conns, clients, runs, txn, calls, failed, clock>>

\* MIN(last_seen): the least text under the BINARY collation, NULL over no
\* rows.
MinLastSeen(tbl) ==
    IF tbl = EmptyBag THEN NoText
    ELSE CHOOSE m \in {r.last_seen : r \in BagToSet(tbl)} :
            \A r \in BagToSet(tbl) : TextLeq(m, r.last_seen)

\* get_date_range()
GetDateRange(tbl) == [earliest |-> MinLastSeen(tbl), latest |-> MaxLastSeen(tbl)]

\* The dictionary get_stats() returns over the rows and runs that the
\* connection sees.
DatabaseStats(tbl, log) ==
    [total_records |-> BagCardinality(tbl),
     unique_mac_addresses |->
         Cardinality({r.mac_address : r \in BagToSet(tbl)} \ {None}),
     collection_runs |-> Len(log),
     earliest_date |-> GetDateRange(tbl).earliest,
     latest_date |-> GetDateRange(tbl).latest]

\* get_stats()
GetStats ==
    /\ ret' = [op |-> "get_stats", value |-> DatabaseStats(View, runs)]
    /\ UNCHANGED <<conns, clients, runs, txn, calls, failed, clock>>

\* ------------------------------------------------------------------ planner
\* collect_client_data's defaults buffer_hours = 1.5 and min_hours = 1.5.
BufferHours == (3 * TicksPerHour) \div 2
MinHours == (3 * TicksPerHour) \div 2
\* The cap of the incremental window and the first-run window, in days.
ApiMaxDays == 30
FirstRunDays == 30

Max(a, b) == IF a >= b THEN a ELSE b
Min(a, b) == IF a <= b THEN a ELSE b

\* int(x): truncation toward zero, of the quotient a / b with b > 0.
IntQuotient(a, b) == IF a >= 0 THEN a \div b ELSE -((-a) \div b)

\* IsFirstRun taking every run for the first.
IsFirstRunAlways(latest_timestamp) == TRUE

\* `if latest_timestamp:` is false for None and for an empty string.
IsFirstRun(latest_timestamp) == latest_timestamp = NoText \/ latest_timestamp = <<>>

\* datetime.fromisoformat(latest_timestamp.replace('Z', '').replace('+00:00', ''))
ParseLatest(latest_timestamp) ==
    FromIsoFormat(RemoveUtcOffset(RemoveZ(latest_timestamp)))

\* DaysToFetch without the cap at ApiMaxDays.
DaysToFetchUncapped(latest_timestamp, utcnow, buffer_hours, min_hours) ==
    LET fetch_from == ParseLatest(latest_timestamp) - buffer_hours
        hours_to_fetch == Max(utcnow - fetch_from, min_hours)
    IN  IntQuotient(hours_to_fetch, TicksPerDay) + 1

\* DaysToFetch rounding the hours up to whole days before adding the day of
\* margin.
DaysToFetchCeil(latest_timestamp, utcnow, buffer_hours, min_hours) ==
    LET fetch_from == ParseLatest(latest_timestamp) - buffer_hours
        hours_to_fetch == Max(utcnow - fetch_from, min_hours)
    IN  Min(IntQuotient(hours_to_fetch + TicksPerDay - 1, TicksPerDay) + 1, ApiMaxDays)

\* DaysToFetch without the day of margin.
DaysToFetchNoMargin(latest_timestamp, utcnow, buffer_hours, min_hours) ==
    LET fetch_from == ParseLatest(latest_timestamp) - buffer_hours
        hours_to_fetch == Max(utcnow - fetch_from, min_hours)
    IN  Min(IntQuotient(hours_to_fetch, TicksPerDay), ApiMaxDays)

\* The incremental branch: days_to_fetch for a latest timestamp at the clock
\* reading utcnow.  hours_to_fetch is kept in ticks; the float quotients of
\* the code are exact enough for int() to equal the integer quotient here.
DaysToFetch(latest_timestamp, utcnow, buffer_hours, min_hours) ==
    LET latest_dt == ParseLatest(latest_timestamp)
        fetch_from == latest_dt - buffer_hours
        hours_to_fetch == Max(utcnow - fetch_from, min_hours)
        days_to_fetch == IntQuotient(hours_to_fetch, TicksPerDay) + 1
    IN  Min(days_to_fetch, ApiMaxDays)

\* collect_client_data(client, org_id, db): plans the window, fetches it
\* (fetched is what the upstream API answers) and returns both.
CollectClientData(fetched) ==
    LET latest_timestamp == MaxLastSeen(View)
        first_run == IsFirstRun(latest_timestamp)
        days_to_fetch == IF first_run THEN FirstRunDays
                         ELSE DaysToFetch(latest_timestamp, now, BufferHours, MinHours)
    IN  /\ ret' = [op |-> "collect_client_data",
                   latest_timestamp |-> latest_timestamp,
                   state |-> IF first_run THEN "Bootstrap" ELSE "Incremental",
                   utcnow |-> now,
                   timespan_seconds |-> days_to_fetch * 86400,
                   clients |-> fetched, days_to_fetch |-> days_to_fetch]
        /\ UNCHANGED <<conns, clients, runs, txn, calls, failed, clock>>

\* main() after collect_client_data: a non-empty fetch is stored with the
\* days that were planned.
MainStore ==
    /\ ret.op = "collect_client_data"
    /\ ret.clients # <<>>
    /\ StoreReturns(ret.clients, ret.days_to_fetch)

\* The table that main's get_all_clients reads, given the store as it was
\* when main started and as it is after store_clients: the stale one.
HistoricalSourceBeforeStore(before, after) == before

\* The table that main's get_all_clients reads: the call comes after
\* store_clients has committed.
HistoricalSource(before, after) == after

\* One run of main() from collect_client_data on, on a connection of its own:
\* the window is planned and fetched, a non-empty fetch is stored, the
\* working set is the history (use_historical) or the fetch, and it is
\* processed unless it is empty.  ended tells where the run ended: at the
\* exit after an empty fetch, at the exit for an empty working set, or
\* after the processing.
Main(fetched, use_historical) ==
    LET latest_timestamp == MaxLastSeen(clients)
        days_fetched == IF IsFirstRun(latest_timestamp) THEN FirstRunDays
                        ELSE DaysToFetch(latest_timestamp, now, BufferHours, MinHours)
        at == calls + 1
        done == InsertLoop(fetched, Len(fetched), EmptyBag, at)
        stored == fetched # <<>>
        after == IF stored THEN clients (+) done.pending ELSE clients
        source == HistoricalSource(clients, after)
    IN  /\ calls < MaxCalls
        /\ txn = EmptyBag
        /\ calls' = IF stored THEN at ELSE calls
        /\ clients' = after
        /\ runs' = IF stored THEN Append(runs, RunRow(at, fetched, days_fetched))
                   ELSE runs
        /\ \E rows \in OrderByLastSeen(SelectDistinct(BagToSet(source)), TRUE) :
              LET working == IF use_historical THEN ClientDicts(rows) ELSE fetched
              IN  ret' = [op |-> "main", use_historical |-> use_historical,
                          clients_from_api |-> fetched,
                          days_fetched |-> days_fetched,
                          collected_at |-> at,
                          ended |-> IF ~stored /\ ~use_historical THEN "no fetch"
                                    ELSE IF working = <<>> THEN "no data"
                                    ELSE "processed",
                          clients |-> IF ~stored /\ ~use_historical THEN <<>>
                                      ELSE working]
        /\ UNCHANGED <<conns, txn, failed, clock>>

\* The last instant of the modelled calendar that a clock reading may take.
Horizon == 120 * TicksPerDay

\* Time passing between two runs of the collector.
Tick(step) ==
    /\ ticks < MaxTicks
    /\ now + step <= Horizon
    /\ now' = now + step
    /\ ticks' = ticks + 1
    /\ UNCHANGED <<conns, clients, runs, txn, calls, failed, ret>>

\* ------------------------------------------------ concurrent store_clients
\* Two ClientDatabase objects on one file, in two processes or threads.
Connections == {"A", "B"}

Other(c) == CHOOSE d \in Connections : d # c

\* A connection on which store_clients is not running.  Of a call: its
\* batch, the records the loop has been through, the rows inserted and not
\* committed, the counters, its collected_at, whether the connection holds
\* the write lock of the file, and whether the call ran while a call on the
\* other connection did.
Idle ==
    [pc |-> "idle", batch |-> <<>>, n |-> 0, pending |-> EmptyBag,
     new_records |-> 0, duplicate_records |-> 0, collected_at |-> 0,
     locked |-> FALSE, overlapped |-> FALSE]

\* store_clients(batch, ...) starts on connection c.
Begin(c, batch) ==
    LET other == conns[Other(c)]
    IN  /\ calls < MaxCalls
        /\ conns[c].pc # "running"
        /\ calls' = calls + 1
        /\ conns' = [conns EXCEPT
                        ![c] = [Idle EXCEPT !.pc = "running", !.batch = batch,
                                            !.collected_at = calls + 1,
                                            !.overlapped = other.pc = "running"],
                        ![Other(c)] = [@ EXCEPT !.overlapped =
                                                    @ \/ other.pc = "running"]]
        /\ UNCHANGED <<clients, runs, txn, failed, clock, ret>>

\* The INSERT of the loop for the next record of the batch.  SQLite lets a
\* connection write only while no other one holds the write lock, which the
\* first write statement of a transaction takes, whether it fails on a
\* constraint or not, and the commit releases; the statement sees the
\* committed rows and the connection's own.
Insert(c) ==
    LET s == conns[c]
        row == RowOf(s.batch[s.n + 1], s.collected_at)
    IN  /\ s.pc = "running"
        /\ s.n < Len(s.batch)
        /\ ~conns[Other(c)].locked
        /\ conns' = [conns EXCEPT ![c] =
                        IF IntegrityError(clients (+) s.pending, row)
                        THEN [s EXCEPT !.n = @ + 1, !.locked = TRUE,
                                       !.duplicate_records = @ + 1]
                        ELSE [s EXCEPT !.n = @ + 1, !.locked = TRUE,
                                       !.pending = @ (+) SetToBag({row}),
                                       !.new_records = @ + 1]]
        /\ UNCHANGED <<clients, runs, txn, calls, failed, clock, ret>>

\* After the loop: the INSERT into collection_runs, the commit and the
\* return.
Commit(c) ==
    LET s == conns[c]
    IN  /\ s.pc = "running"
        /\ s.n = Len(s.batch)
        /\ ~conns[Other(c)].locked
        /\ clients' = clients (+) s.pending
        /\ runs' = Append(runs, RunRow(s.collected_at, s.batch, 30))
        /\ conns' = [conns EXCEPT ![c] = [s EXCEPT !.pc = "returned",
                                                   !.pending = EmptyBag,
                                                   !.locked = FALSE]]
        /\ ret' = [op |-> "store_clients", raised |-> FALSE, batch |-> s.batch,
                   new_records |-> s.new_records,
                   duplicate_records |-> s.duplicate_records]
        /\ UNCHANGED <<txn, calls, failed, clock>>

\* The first write statement of the call has waited for the write lock for
\* the busy timeout (5 s by default): sqlite3.OperationalError 'database is
\* locked', which store_clients does not catch.
Busy(c) ==
    LET s == conns[c]
    IN  /\ s.pc = "running"
        /\ ~s.locked
        /\ conns[Other(c)].locked
        /\ conns' = [conns EXCEPT ![c] = [s EXCEPT !.pc = "raised"]]
        /\ failed' = failed \cup {s.collected_at}
        /\ ret' = [op |-> "store_clients", raised |-> TRUE]
        /\ UNCHANGED <<clients, runs, txn, calls, clock>>

\* ----------------------------------------------------------------- inputs
Net1 == [is_dict |-> TRUE, id |-> "N1", name |-> "Office"]
\* A record without a 'network' entry.
NoNetwork == [is_dict |-> FALSE, id |-> None, name |-> None]

\* 2024-01-07T10:00:00 and the neighbouring instants and day boundaries.
T_Start == 6 * TicksPerDay
T_Ten == 6 * TicksPerDay + 10 * TicksPerHour
T_End == 7 * TicksPerDay

\* Records as the upstream API returns them: one on a network, seen at
\* 10:00:00, and two sightings of one device half a second later that carry
\* no network and differ in the address only.
ApiClients ==
    { [mac |-> "AA:11", ip |-> "10.0.0.1", lastSeen |-> ApiStamp(T_Ten, SuffixZ),
       network |-> Net1],
      [mac |-> "BB:22", ip |-> "10.0.0.1", lastSeen |-> ApiStamp(T_Ten + 1, SuffixZ),
       network |-> NoNetwork],
      [mac |-> "BB:22", ip |-> "10.0.0.2", lastSeen |-> ApiStamp(T_Ten + 1, SuffixZ),
       network |-> NoNetwork] }

\* The datetime bounds handed to get_clients_in_date_range.
QueryBounds == {T_Start, T_Ten, T_End}

Batches(universe) == UNION {[1 .. n -> universe] : n \in 0 .. MaxBatch}

\* What the upstream API answers at the clock reading t: nothing, or one
\* sighting 10 minutes old, or one stamped two hours and half a second ahead
\* of the collector's clock, in the other notation.
Sighting(t, suffix) ==
    [mac |-> "AA:11", ip |-> "10.0.0.1", lastSeen |-> ApiStamp(t, suffix),
     network |-> Net1]

Fetches(t) ==
    { <<>>,
      <<Sighting(t - 10 * TicksPerMinute, SuffixZ)>>,
      <<Sighting(t + 2 * TicksPerHour + 1, SuffixUtc)>> }

\* The pauses between runs: those after which a sighting that was 10 minutes
\* old is exactly 24 h, and exactly 30 days, behind now + buffer; and 31 days.
Steps ==
    { TicksPerDay - BufferHours - 10 * TicksPerMinute,
      30 * TicksPerDay - BufferHours - 10 * TicksPerMinute,
      31 * TicksPerDay }

\* ---------------------------------------------------------- specification
Init ==
    /\ clients = EmptyBag
    /\ runs = <<>>
    /\ txn = EmptyBag
    /\ calls = 0
    /\ failed = {}
    /\ now = T_End + TicksPerHour
    /\ ticks = 0
    /\ conns = [c \in Connections |-> Idle]
    /\ ret = [op |-> "init"]

Next ==
    \/ \E batch \in Batches(ApiClients) : StoreReturns(batch, 30)
    \/ \E batch \in Batches(ApiClients), k \in 1 .. MaxBatch + 1, rb \in BOOLEAN :
          StoreRaises(batch, k, rb)
    \/ Reopen
    \/ GetLatestClientTimestamp
    \/ \E start_date \in QueryBounds, end_date \in QueryBounds :
          start_date <= end_date /\ GetClientsInDateRange(start_date, end_date)
    \/ GetAllClients
    \/ GetStats

\* The write path alone.
StoreNext ==
    \/ \E batch \in Batches(ApiClients) : StoreReturns(batch, 30)
    \/ \E batch \in Batches(ApiClients), k \in 1 .. MaxBatch + 1, rb \in BOOLEAN :
          StoreRaises(batch, k, rb)
    \/ Reopen

\* Submissions to store_clients that are not all well formed: two sightings of
\* one device on one network at one instant that differ in the address, a
\* record whose 'mac' is None, and one whose 'lastSeen' is None.
Submissions ==
    { [mac |-> "AA:11", ip |-> "10.0.0.1", lastSeen |-> ApiStamp(T_Ten, SuffixZ),
       network |-> Net1],
      [mac |-> "AA:11", ip |-> "10.0.0.2", lastSeen |-> ApiStamp(T_Ten, SuffixZ),
       network |-> Net1],
      [mac |-> None, ip |-> "10.0.0.3", lastSeen |-> ApiStamp(T_Ten + 1, SuffixZ),
       network |-> Net1],
      [mac |-> "CC:33", ip |-> "10.0.0.3", lastSeen |-> NoText,
       network |-> Net1] }

\* Batches received and the statistics read between them.
IngestNext ==
    \/ \E batch \in Batches(Submissions) : StoreReturns(batch, 30)
    \/ GetStats

\* Runs of the collector as time passes.
PlanNext ==
    \/ \E step \in Steps : Tick(step)
    \/ \E fetched \in Fetches(now) : CollectClientData(fetched)
    \/ MainStore

\* Whole runs of main as time passes.
PassNext ==
    \/ \E step \in Steps : Tick(step)
    \/ \E fetched \in Fetches(now), use_historical \in BOOLEAN :
          Main(fetched, use_historical)

\* Calls of store_clients on the two connections, one statement at a time.
ConcurrentNext ==
    \/ \E c \in Connections, batch \in Batches(ApiClients) : Begin(c, batch)
    \/ \E c \in Connections : Insert(c)
    \/ \E c \in Connections : Commit(c)
    \/ \E c \in Connections : Busy(c)

Spec == Init /\ [][Next]_vars

StoreSpec == Init /\ [][StoreNext]_vars

IngestSpec == Init /\ [][IngestNext]_vars

PassSpec == Init /\ [][PassNext]_vars

ConcurrentSpec == Init /\ [][ConcurrentNext]_vars

PlanSpec == Init /\ [][PlanNext]_vars

\* ------------------------------------------------------------ aggregation
\* (data_processor.py)  The proleptic Gregorian calendar as Python's
\* datetime computes it; ordinal 1 is 0001-01-01, a Monday.
IsLeap(y) == y % 4 = 0 /\ (y % 100 # 0 \/ y % 400 = 0)

DaysInMonth(y, m) ==
    IF m = 2 THEN (IF IsLeap(y) THEN 29 ELSE 28)
    ELSE IF m \in {4, 6, 9, 11} THEN 30 ELSE 31

DaysBeforeYear(y) ==
    (y - 1) * 365 + (y - 1) \div 4 - (y - 1) \div 100 + (y - 1) \div 400

RECURSIVE DaysBeforeMonth(_, _)
DaysBeforeMonth(y, m) ==
    IF m = 1 THEN 0 ELSE DaysBeforeMonth(y, m - 1) + DaysInMonth(y, m - 1)

\* date.toordinal()
ToOrdinal(d) == DaysBeforeYear(d.year) + DaysBeforeMonth(d.year, d.month) + d.day

RECURSIVE MonthOfYearDay(_, _, _)
MonthOfYearDay(y, n, m) ==
    IF n < DaysBeforeMonth(y, m) + DaysInMonth(y, m) THEN m
    ELSE MonthOfYearDay(y, n, m + 1)

\* date.fromordinal(n): the cycles of 400, 100, 4 and 1 years.
FromOrdinal(n) ==
    LET n0 == n - 1
        n400 == n0 \div 146097
        r400 == n0 % 146097
        n100 == r400 \div 36524
        r100 == r400 % 36524
        n4 == r100 \div 1461
        r4 == r100 % 1461
        n1 == r4 \div 365
        r1 == r4 % 365
        y == n400 * 400 + n100 * 100 + n4 * 4 + n1 + 1
    IN  IF n1 = 4 \/ n100 = 4
        THEN [year |-> y - 1, month |-> 12, day |-> 31]
        ELSE LET m == MonthOfYearDay(y, r1, 1)
             IN  [year |-> y, month |-> m, day |-> r1 - DaysBeforeMonth(y, m) + 1]

\* datetime.weekday(): Monday is 0, Sunday is 6.
Weekday(d) == (ToOrdinal(d) + 6) % 7

\* Day of the year counted from 0, as strftime takes it.
YearDay(d) == ToOrdinal(d) - DaysBeforeYear(d.year) - 1

\* A datetime: the date fields and the time of day.
DateTime(date, h, mi, s) ==
    [year |-> date.year, month |-> date.month, day |-> date.day,
     hour |-> h, minute |-> mi, second |-> s]

\* The total order of the datetimes: seconds since 2000-01-01 00:00:00.
Seconds(dt) ==
    LET days == ToOrdinal(dt) - ToOrdinal([year |-> 2000, month |-> 1, day |-> 1])
    IN  ((days * 24 + dt.hour) * 60 + dt.minute) * 60 + dt.second

Pad4(n) == <<Digit(n \div 1000), Digit((n \div 100) % 10)>> \o Pad2(n % 100)

\* A lastSeen value as the upstream API writes it: "YYYY-MM-DDTHH:MM:SSZ".
LastSeenText(dt) ==
    Pad4(dt.year) \o <<45>> \o Pad2(dt.month) \o <<45>> \o Pad2(dt.day) \o <<84>>
    \o Pad2(dt.hour) \o <<58>> \o Pad2(dt.minute) \o <<58>> \o Pad2(dt.second)
    \o SuffixZ

\* A record without a 'lastSeen' key.
Missing == <<-2>>

\* str.replace('Z', '+00:00')
RECURSIVE ReplaceZ(_)
ReplaceZ(s) ==
    IF s = <<>> THEN <<>>
    ELSE (IF Head(s) = 90 THEN SuffixUtc ELSE <<Head(s)>>) \o ReplaceZ(Tail(s))

IsDigits(s, from, to) == \A i \in from .. to : s[i] \in 48 .. 57

Num4(s, i) == Num2(s, i) * 100 + Num2(s, i + 2)

\* What may follow the seconds: a fraction of 3 or 6 digits, then a UTC
\* offset "+HH:MM" or "-HH:MM".
FractionLength(rest) ==
    IF rest # <<>> /\ Head(rest) = 46
    THEN (IF Len(rest) >= 7 /\ IsDigits(rest, 2, 7) THEN 7
          ELSE IF Len(rest) >= 4 /\ IsDigits(rest, 2, 4) THEN 4 ELSE -1)
    ELSE 0

UtcOffsetText(rest) == SubSeq(rest, FractionLength(rest) + 1, Len(rest))

UtcOffsetOk(offset) ==
    \/ offset = <<>>
    \/ /\ Len(offset) = 6
       /\ offset[1] \in {43, 45}
       /\ IsDigits(offset, 2, 3) /\ offset[4] = 58 /\ IsDigits(offset, 5, 6)
       /\ Num2(offset, 2) <= 23 /\ Num2(offset, 5) <= 59

\* The offset in minutes east of UTC; 0 for a datetime without one.
UtcOffsetMinutes(offset) ==
    IF offset = <<>> THEN 0
    ELSE (IF offset[1] = 45 THEN -1 ELSE 1) * (Num2(offset, 2) * 60 + Num2(offset, 5))

IsoTailOk(rest) ==
    /\ FractionLength(rest) >= 0
    /\ UtcOffsetOk(UtcOffsetText(rest))

IsoDateOk(s) ==
    /\ Len(s) >= 10
    /\ IsDigits(s, 1, 4) /\ s[5] = 45 /\ IsDigits(s, 6, 7) /\ s[8] = 45
    /\ IsDigits(s, 9, 10)
    /\ Num4(s, 1) >= 1
    /\ Num2(s, 6) \in 1 .. 12
    /\ Num2(s, 9) >= 1 /\ Num2(s, 9) <= DaysInMonth(Num4(s, 1), Num2(s, 6))

IsoTimeOk(s) ==
    /\ Len(s) >= 19
    /\ s[11] = 84
    /\ IsDigits(s, 12, 13) /\ s[14] = 58 /\ IsDigits(s, 15, 16) /\ s[17] = 58
    /\ IsDigits(s, 18, 19)
    /\ Num2(s, 12) <= 23 /\ Num2(s, 15) <= 59 /\ Num2(s, 18) <= 59
    /\ IsoTailOk(SubSeq(s, 20, Len(s)))

\* datetime.fromisoformat(client['lastSeen'].replace('Z', '+00:00')): the
\* wall-clock fields of the datetime as written, with its UTC offset, or the
\* exception raised.  None and numbers have no replace (AttributeError);
\* text that is not a date, or a date and a time of day, is a ValueError.
ParseLastSeen(lastSeen) ==
    IF lastSeen = NoText THEN [raised |-> "AttributeError"]
    ELSE LET s == ReplaceZ(lastSeen)
         IN  IF ~IsoDateOk(s) \/ ~(Len(s) = 10 \/ IsoTimeOk(s))
             THEN [raised |-> "ValueError"]
             ELSE [raised |-> None,
                   year |-> Num4(s, 1), month |-> Num2(s, 6), day |-> Num2(s, 9),
                   hour |-> IF Len(s) = 10 THEN 0 ELSE Num2(s, 12),
                   minute |-> IF Len(s) = 10 THEN 0 ELSE Num2(s, 15),
                   second |-> IF Len(s) = 10 THEN 0 ELSE Num2(s, 18),
                   utcoffset |-> IF Len(s) = 10 THEN 0
                                 ELSE UtcOffsetMinutes(
                                          UtcOffsetText(SubSeq(s, 20, Len(s))))]

\* strftime: '%Y-%m-%d', '%Y-%m' and '%Y-%m-%d %H:00'.
DayKey(dt) == Pad4(dt.year) \o <<45>> \o Pad2(dt.month) \o <<45>> \o Pad2(dt.day)

MonthKey(dt) == Pad4(dt.year) \o <<45>> \o Pad2(dt.month)

HourKey(dt) == DayKey(dt) \o <<32>> \o Pad2(dt.hour) \o <<58, 48, 48>>

\* strftime('%U'): the week of the year, Sunday being the first day of a
\* week and the days before the first Sunday being in week 0.
WeekOfYear(dt) == (YearDay(dt) + 7 - ((Weekday(dt) + 1) % 7)) \div 7

\* strftime('%Y-W%U')
WeekKey(dt) == Pad4(dt.year) \o <<45, 87>> \o Pad2(WeekOfYear(dt))

\* Days back to the Sunday that starts the week.
DaysToMonday(date) == Weekday(date)

DaysToSunday(date) == (Weekday(date) + 1) % 7

GetWeekBoundaries(date) ==
    LET start == ToOrdinal(date) - DaysToSunday(date)
    IN  [week_start |-> DateTime(FromOrdinal(start), 0, 0, 0),
         week_end |-> DateTime(FromOrdinal(start + 6), 23, 59, 59)]

\* The key under which group_clients_by_week files a datetime.
WeekKeyOfLastSeen(last_seen) ==
    Pad4(last_seen.year) \o <<45, 87>>
    \o Pad2(WeekOfYear(GetWeekBoundaries(last_seen).week_start))

WeekKeyOf(last_seen) == WeekKey(GetWeekBoundaries(last_seen).week_start)

\* The loop shared by the group_clients_by_* functions: a record is filed
\* when it has a 'lastSeen' key whose value parses, and skipped otherwise;
\* each bucket keeps the order of the input.
Parses(client) == ParseLastSeen(client.lastSeen).raised = None

Filed(client) == client.lastSeen # Missing /\ Parses(client)

FiledIndices(records) == {i \in DOMAIN records : Filed(records[i])}

\* The dictionary built from the pairs (index of a record, its key).
Grouped(records, keyed) ==
    LET Indices(k) == SelectSeq([i \in DOMAIN records |-> i],
                                LAMBDA i : <<i, k>> \in keyed)
    IN  [k \in {p[2] : p \in keyed} |->
            [n \in 1 .. Len(Indices(k)) |-> records[Indices(k)[n]]]]

GroupClientsByDay(records) ==
    Grouped(records, {<<i, DayKey(ParseLastSeen(records[i].lastSeen))>> :
                         i \in FiledIndices(records)})

GroupClientsByWeek(records) ==
    Grouped(records, {<<i, WeekKeyOf(ParseLastSeen(records[i].lastSeen))>> :
                         i \in FiledIndices(records)})

GroupClientsByMonth(records) ==
    Grouped(records, {<<i, MonthKey(ParseLastSeen(records[i].lastSeen))>> :
                         i \in FiledIndices(records)})

GroupClientsByHour(records) ==
    Grouped(records, {<<i, HourKey(ParseLastSeen(records[i].lastSeen))>> :
                         i \in FiledIndices(records)})

\* str.upper() of one character.
Upper(c) == IF c \in 97 .. 122 THEN c - 32 ELSE c

IsRandomizedMacUpperOnly(mac_address) ==
    IF mac_address = NoText \/ Len(mac_address) < 2 THEN FALSE
    ELSE mac_address[2] \in {50, 54, 65, 69}

IsRandomizedMac(mac_address) ==
    IF mac_address = NoText \/ mac_address = <<>> \/ Len(mac_address) < 2 THEN FALSE
    ELSE Upper(mac_address[2]) \in {50, 54, 65, 69}

\* Python's truth value of a text (mac) and of a string (ip).
HasText(text) == text # NoText /\ text # <<>>
HasString(str) == str # None /\ str # ""

Range(seq) == {seq[i] : i \in DOMAIN seq}

\* A quotient of two counts, kept exact.
Ratio(num, den) == [num |-> num, den |-> den]

MacIpRatioUnguarded(unique_macs, unique_ips) == Ratio(unique_macs, unique_ips)

MacIpRatio(unique_macs, unique_ips) ==
    IF unique_ips > 0 THEN Ratio(unique_macs, unique_ips) ELSE Ratio(1, 1)

UniqueMacsPerRecord(records) ==
    Len(SelectSeq(records, LAMBDA c : HasText(c.mac)))

UniqueMacs(records) ==
    Cardinality({c.mac : c \in {x \in Range(records) : HasText(x.mac)}})

CountUniqueClients(records) ==
    LET known == {c \in Range(records) : HasText(c.mac)}
        unique_ips == {c.ip : c \in {x \in Range(records) : HasString(x.ip)}}
        randomized_macs == {c.mac : c \in {x \in known : IsRandomizedMac(x.mac)}}
        wireless_macs == {c.mac : c \in {x \in known : x.recentDeviceConnection = "Wireless"}}
        wired_macs == {c.mac : c \in {x \in known : x.recentDeviceConnection = "Wired"}}
    IN  [unique_macs |-> UniqueMacs(records),
         unique_ips |-> Cardinality(unique_ips),
         randomized_macs |-> Cardinality(randomized_macs),
         wireless_clients |-> Cardinality(wireless_macs),
         wired_clients |-> Cardinality(wired_macs),
         mac_ip_ratio |-> MacIpRatio(UniqueMacs(records), Cardinality(unique_ips))]

\* sorted(keys): ascending in Python's order of strings, which compares
\* code points as TextLess does.
RECURSIVE SortedKeys(_)
SortedKeys(keys) ==
    IF keys = {} THEN <<>>
    ELSE LET first == CHOOSE k \in keys : \A j \in keys : TextLeq(k, j)
         IN  <<first>> \o SortedKeys(keys \ {first})

\* seq[start:] of Python: a negative start counts from the end, and -0 is 0.
PySliceFrom(seq, start) ==
    LET from == IF start < 0 THEN Max(Len(seq) + start, 0) ELSE Min(start, Len(seq))
    IN  SubSeq(seq, from + 1, Len(seq))

\* round(num / den, 2), in hundredths.  A value half way between two
\* hundredths is a float only when den is a multiple of 8, and round() then
\* takes the even neighbour.
Round2(num, den) ==
    LET q == (100 * num) \div den
        r == (100 * num) % den
    IN  IF 2 * r < den THEN q
        ELSE IF 2 * r > den THEN q + 1
        ELSE IF q % 2 = 0 THEN q ELSE q + 1

RECURSIVE SumOver(_, _, _)
SumOver(grouped, keys, field) ==
    IF keys = <<>> THEN 0
    ELSE CountUniqueClients(grouped[Head(keys)])[field]
         + SumOver(grouped, Tail(keys), field)

RECURSIVE WeightedSumOver(_, _, _)
WeightedSumOver(grouped, keys, field) ==
    IF keys = <<>> THEN 0
    ELSE CountUniqueClients(grouped[Head(keys)])[field] * Len(grouped[Head(keys)])
         + WeightedSumOver(grouped, Tail(keys), field)

RECURSIVE Population(_, _)
Population(grouped, keys) ==
    IF keys = <<>> THEN 0
    ELSE Len(grouped[Head(keys)]) + Population(grouped, Tail(keys))

\* The mean in which each bucket weighs as many as it holds records.
AverageWeighted(grouped, keys, field) ==
    Round2(WeightedSumOver(grouped, keys, field), Population(grouped, keys))

\* sum(s[field] for s in stats) / len(stats), rounded.
Average(grouped, keys, field) ==
    Round2(SumOver(grouped, keys, field), Len(keys))

\* Python's None where a result structure is expected.
NoResult == [absent |-> TRUE]

\* The per-bucket statistics with the bucket's key ('date', 'week', 'month').
Details(grouped, keys) ==
    [i \in 1 .. Len(keys) |->
        [period |-> keys[i]] @@ CountUniqueClients(grouped[keys[i]])]

\* The structure the calculate_*_averages functions return (the sampled
\* count is 'days_sampled', 'weeks_sampled' or 'months_sampled').
AveragesOver(grouped, keys) ==
    [avg_unique_mac_addresses |-> Average(grouped, keys, "unique_macs"),
     avg_unique_ip_addresses |-> Average(grouped, keys, "unique_ips"),
     avg_randomized_macs |-> Average(grouped, keys, "randomized_macs"),
     avg_wireless_clients |-> Average(grouped, keys, "wireless_clients"),
     avg_wired_clients |-> Average(grouped, keys, "wired_clients"),
     periods_sampled |-> Len(keys),
     details |-> Details(grouped, keys)]

ZeroAverages ==
    [avg_unique_mac_addresses |-> 0, avg_unique_ip_addresses |-> 0,
     avg_randomized_macs |-> 0, avg_wireless_clients |-> 0,
     avg_wired_clients |-> 0, periods_sampled |-> 0, details |-> <<>>]

AveragesOrZeros(grouped, num) ==
    LET keys == PySliceFrom(SortedKeys(DOMAIN grouped), -num)
    IN  IF keys = <<>> THEN ZeroAverages ELSE AveragesOver(grouped, keys)

\* The body shared by the three calculate_*_averages functions.
Averages(grouped, num) ==
    LET keys == PySliceFrom(SortedKeys(DOMAIN grouped), -num)
    IN  IF keys = <<>> THEN NoResult ELSE AveragesOver(grouped, keys)

CalculateDailyAverages(records, num_days) ==
    Averages(GroupClientsByDay(records), num_days)

CalculateWeeklyAverages(records, num_weeks) ==
    Averages(GroupClientsByWeek(records), num_weeks)

CalculateMonthlyAverages(records, num_months) ==
    Averages(GroupClientsByMonth(records), num_months)

RandomizedFraction(randomized_count, total_macs) ==
    IF total_macs > 0 THEN Round2(randomized_count, total_macs) ELSE 0

\* (randomized_count / total_macs * 100) if total_macs > 0 else 0, rounded
\* to 2 decimals; in hundredths of a percent.
RandomizedPercentage(randomized_count, total_macs) ==
    IF total_macs > 0 THEN Round2(randomized_count * 100, total_macs) ELSE 0

AnalyzeMacRandomization(records) ==
    LET total_stats == CountUniqueClients(records)
    IN  [total_macs_seen |-> total_stats.unique_macs,
         total_ips_seen |-> total_stats.unique_ips,
         randomized_macs_detected |-> total_stats.randomized_macs,
         randomized_percentage |->
             RandomizedPercentage(total_stats.randomized_macs, total_stats.unique_macs),
         mac_ip_ratio |-> Round2(total_stats.mac_ip_ratio.num, total_stats.mac_ip_ratio.den)]

CalculateHourlyStats(records) ==
    IF records = <<>> THEN <<>>
    ELSE LET grouped == GroupClientsByHour(records)
             keys == SortedKeys(DOMAIN grouped)
             Stats(k) == CountUniqueClients(grouped[k])
         IN  [i \in 1 .. Len(keys) |->
                 [hour |-> keys[i],
                  unique_macs |-> Stats(keys[i]).unique_macs,
                  unique_ips |-> Stats(keys[i]).unique_ips,
                  wireless_clients |-> Stats(keys[i]).wireless_clients,
                  wired_clients |-> Stats(keys[i]).wired_clients,
                  total_clients |-> Stats(keys[i]).unique_macs]]

\* strftime('%A') of the weekdays 0 .. 6, which is also day_order.
DayNames ==
    <<"Monday", "Tuesday", "Wednesday", "Thursday", "Friday", "Saturday", "Sunday">>

\* (The entries of hourly_totals are modelled without their 'hour_label',
\* which is the hour printed as "HH:00".)
\* max(hourly_totals, key=...): the first of the entries with the largest
\* unique_ips.
PeakHour(hourly_totals) ==
    LET best == CHOOSE i \in DOMAIN hourly_totals :
                    /\ \A j \in DOMAIN hourly_totals :
                          hourly_totals[j].unique_ips <= hourly_totals[i].unique_ips
                    /\ \A j \in 1 .. i - 1 :
                          hourly_totals[j].unique_ips < hourly_totals[i].unique_ips
    IN  hourly_totals[best]

AnalyzePeakHours(records) ==
    IF records = <<>>
    THEN [peak_hour |-> NoResult, peak_count |-> 0,
          hourly_totals |-> <<>>, day_of_week_totals |-> <<>>]
    ELSE LET seen == {c \in Range(records) :
                         /\ c.lastSeen # Missing /\ HasText(c.lastSeen)
                         /\ Parses(c)}
             At(c) == LET dt == ParseLastSeen(c.lastSeen)
                      IN  [mac |-> c.mac, ip |-> c.ip, hour_of_day |-> dt.hour,
                           day_of_week |-> Weekday(dt)]
             parsed == {At(c) : c \in seen}
             Macs(S) == {c.mac : c \in {x \in S : HasText(x.mac)}}
             Ips(S) == {c.ip : c \in {x \in S : HasString(x.ip)}}
             AtHour(h) == {c \in parsed : c.hour_of_day = h}
             OnDay(d) == {c \in parsed : c.day_of_week = d}
             hourly_totals ==
                 [i \in 1 .. 24 |->
                     [hour |-> i - 1,
                      unique_macs |-> Cardinality(Macs(AtHour(i - 1))),
                      unique_ips |-> Cardinality(Ips(AtHour(i - 1)))]]
             day_of_week_totals ==
                 [i \in 1 .. 7 |->
                     [day |-> DayNames[i],
                      unique_macs |-> Cardinality(Macs(OnDay(i - 1))),
                      unique_ips |-> Cardinality(Ips(OnDay(i - 1)))]]
         IN  [peak_hour |-> PeakHour(hourly_totals),
              hourly_totals |-> hourly_totals,
              day_of_week_totals |-> day_of_week_totals,
              total_unique_clients |-> Cardinality(Macs(Range(records)))]

\* The operations of DataProcessor, each called once on arguments that the
\* initial state holds in ret; the arguments and the value returned are
\* left in ret.
HasArgs(names) == ret.op = "args" /\ DOMAIN ret = names \cup {"op"}

Returned(r) == /\ ret' = r
               /\ UNCHANGED <<conns, clients, runs, txn, calls, failed, clock>>

CallIsRandomizedMac ==
    /\ HasArgs({"mac_address"})
    /\ Returned([op |-> "is_randomized_mac", mac_address |-> ret.mac_address,
                 result |-> IsRandomizedMac(ret.mac_address)])

CallCountUniqueClients ==
    /\ HasArgs({"clients"})
    /\ Returned([op |-> "count_unique_clients", clients |-> ret.clients,
                 result |-> CountUniqueClients(ret.clients)])

CallGroupClientsByDay ==
    /\ HasArgs({"clients"})
    /\ Returned([op |-> "group_clients_by_day", clients |-> ret.clients,
                 result |-> GroupClientsByDay(ret.clients)])

CallGroupClientsByWeek ==
    /\ HasArgs({"clients"})
    /\ Returned([op |-> "group_clients_by_week", clients |-> ret.clients,
                 result |-> GroupClientsByWeek(ret.clients)])

CallGroupClientsByMonth ==
    /\ HasArgs({"clients"})
    /\ Returned([op |-> "group_clients_by_month", clients |-> ret.clients,
                 result |-> GroupClientsByMonth(ret.clients)])

CallGroupClientsByHour ==
    /\ HasArgs({"clients"})
    /\ Returned([op |-> "group_clients_by_hour", clients |-> ret.clients,
                 result |-> GroupClientsByHour(ret.clients)])

CallCalculateDailyAverages ==
    /\ HasArgs({"clients", "num"})
    /\ Returned([op |-> "calculate_daily_averages", clients |-> ret.clients,
                 num |-> ret.num,
                 result |-> CalculateDailyAverages(ret.clients, ret.num)])

CallCalculateWeeklyAverages ==
    /\ HasArgs({"clients", "num"})
    /\ Returned([op |-> "calculate_weekly_averages", clients |-> ret.clients,
                 num |-> ret.num,
                 result |-> CalculateWeeklyAverages(ret.clients, ret.num)])

CallCalculateMonthlyAverages ==
    /\ HasArgs({"clients", "num"})
    /\ Returned([op |-> "calculate_monthly_averages", clients |-> ret.clients,
                 num |-> ret.num,
                 result |-> CalculateMonthlyAverages(ret.clients, ret.num)])

CallAnalyzeMacRandomization ==
    /\ HasArgs({"clients"})
    /\ Returned([op |-> "analyze_mac_randomization", clients |-> ret.clients,
                 result |-> AnalyzeMacRandomization(ret.clients)])

CallCalculateHourlyStats ==
    /\ HasArgs({"clients"})
    /\ Returned([op |-> "calculate_hourly_stats", clients |-> ret.clients,
                 result |-> CalculateHourlyStats(ret.clients)])

CallAnalyzePeakHours ==
    /\ HasArgs({"clients"})
    /\ Returned([op |-> "analyze_peak_hours", clients |-> ret.clients,
                 result |-> AnalyzePeakHours(ret.clients)])

\* ------------------------------------------------------ aggregation inputs
\* "xy:00:00:00:00:0n"
Mac(x, y, n) ==
    <<x, y, 58, 48, 48, 58, 48, 48, 58, 48, 48, 58, 48, 48, 58, 48, Digit(n)>>

\* The characters tried in the first two places of an identity: hexadecimal
\* digits in both cases, and some that are not.
MacChars ==
    (48 .. 57) \cup (65 .. 70) \cup (97 .. 102) \cup {58, 71, 90, 103, 122}

MacAddresses ==
    {NoText, <<>>} \cup {<<c>> : c \in MacChars}
    \cup {<<x, c>> : x \in {50, 65, 98}, c \in MacChars}
    \cup {Mac(48, c, 1) : c \in MacChars}

\* The Sundays that start the weeks spanning the changes of year 2023/2024
\* and 2024/2025, and the week of 29 February 2024.
Sundays ==
    { [year |-> 2023, month |-> 12, day |-> 31],
      [year |-> 2024, month |-> 2, day |-> 25],
      [year |-> 2024, month |-> 12, day |-> 29] }

\* Around each of them: the last second of the Saturday before, its first
\* second, the Wednesday, the last second of its Saturday, and the first
\* second of the next Sunday.
WeekEdges(sunday) ==
    LET Day(k) == FromOrdinal(ToOrdinal(sunday) + k)
    IN  { DateTime(Day(-1), 23, 59, 59), DateTime(Day(0), 0, 0, 0),
          DateTime(Day(3), 12, 30, 0), DateTime(Day(6), 23, 59, 59),
          DateTime(Day(7), 0, 0, 0) }

Seen(mac, ip, connection, lastSeen) ==
    [mac |-> mac, ip |-> ip, recentDeviceConnection |-> connection,
     lastSeen |-> lastSeen]

Sightings ==
    { Seen(Mac(48, 48, 1), "10.0.0.1", "Wired", LastSeenText(dt)) :
        dt \in UNION {WeekEdges(s) : s \in Sundays} }

\* Longest list of records handed to the counting and averaging operations.
MaxRecords == 3

Sunday1 == DateTime([year |-> 2024, month |-> 12, day |-> 29], 0, 0, 0)
Saturday1 == DateTime([year |-> 2025, month |-> 1, day |-> 4], 23, 59, 59)
Sunday2 == DateTime([year |-> 2025, month |-> 1, day |-> 5], 0, 0, 0)

\* Records of three devices: one with a randomized identity seen on the
\* Sunday and the Saturday of one week, one seen on that Saturday and on the
\* next Sunday, and one whose records carry no usable lastSeen (None, no
\* key at all, text that is not a timestamp).
Observations ==
    { Seen(Mac(97, 50, 1), "10.0.0.1", "Wireless", LastSeenText(Sunday1)),
      Seen(Mac(97, 50, 1), "10.0.0.2", "Wireless", LastSeenText(Saturday1)),
      Seen(Mac(48, 48, 2), "10.0.0.1", "Wired", LastSeenText(Saturday1)),
      Seen(Mac(48, 48, 2), None, "Wired", LastSeenText(Sunday2)),
      Seen(Mac(48, 69, 3), "10.0.0.3", "Wireless", NoText),
      Seen(Mac(48, 69, 3), None, "Unknown", Missing),
      Seen(NoText, "10.0.0.3", "Unknown", <<110, 47, 97>>) }

Lists(universe) == UNION {[1 .. n -> universe] : n \in 0 .. MaxRecords}

\* Two devices without an address seen between 04:00 and 05:00 on two days,
\* and one device seen with two addresses between 05:00 and 06:00.
HourSightings ==
    LET Day(d) == [year |-> 2024, month |-> 12, day |-> d]
    IN  { Seen(Mac(48, 48, 1), None, "Wireless", LastSeenText(DateTime(Day(30), 4, 30, 0))),
          Seen(Mac(48, 48, 2), None, "Wireless", LastSeenText(DateTime(Day(31), 4, 45, 0))),
          Seen(Mac(48, 48, 3), "10.0.0.1", "Wired", LastSeenText(DateTime(Day(30), 5, 15, 0))),
          Seen(Mac(48, 48, 3), "10.0.0.2", "Wired", LastSeenText(DateTime(Day(31), 5, 15, 0))) }

\* One instant, 2024-12-30 04:30:00 UTC, written with the offsets Z, -05:00
\* (the evening of the 29th) and +05:30, and the instant one day later.
OffsetSightings ==
    { Seen(Mac(48, 48, 1), "10.0.0.1", "Wired", text) :
        text \in { <<50, 48, 50, 52, 45, 49, 50, 45, 51, 48, 84,
                      48, 52, 58, 51, 48, 58, 48, 48, 90>>,
                   <<50, 48, 50, 52, 45, 49, 50, 45, 50, 57, 84,
                      50, 51, 58, 51, 48, 58, 48, 48, 45, 48, 53, 58, 48, 48>>,
                   <<50, 48, 50, 52, 45, 49, 50, 45, 51, 48, 84,
                      49, 48, 58, 48, 48, 58, 48, 48, 43, 48, 53, 58, 51, 48>>,
                   <<50, 48, 50, 52, 45, 49, 50, 45, 51, 49, 84,
                      48, 52, 58, 51, 48, 58, 48, 48, 90>> } }

\* The values of --days, --weeks and --months tried (argparse: any int).
WindowSizes == {0, 1, 2, 7}

\* The arguments of one call: an identity, or a list of records (of the
\* three devices, or sightings around the ends of the weeks), or a list of
\* records and a window size.
Arguments ==
    {[op |-> "args", mac_address |-> m] : m \in MacAddresses}
    \cup {[op |-> "args", clients |-> r] :
            r \in Lists(Observations) \cup Batches(Sightings)
                  \cup Batches(OffsetSightings) \cup Lists(HourSightings)}
    \cup {[op |-> "args", clients |-> r, num |-> n] :
            r \in Lists(Observations), n \in WindowSizes}

AggInit ==
    /\ clients = EmptyBag
    /\ runs = <<>>
    /\ txn = EmptyBag
    /\ calls = 0
    /\ failed = {}
    /\ now = T_End + TicksPerHour
    /\ ticks = 0
    /\ conns = [c \in Connections |-> Idle]
    /\ ret \in Arguments

AggNext ==
    \/ CallIsRandomizedMac
    \/ CallCountUniqueClients
    \/ CallGroupClientsByDay
    \/ CallGroupClientsByWeek
    \/ CallGroupClientsByMonth
    \/ CallGroupClientsByHour
    \/ CallCalculateDailyAverages
    \/ CallCalculateWeeklyAverages
    \/ CallCalculateMonthlyAverages
    \/ CallAnalyzeMacRandomization
    \/ CallCalculateHourlyStats
    \/ CallAnalyzePeakHours

\* The aggregation engine, called on in-memory records.
AggSpec == AggInit /\ [][AggNext]_vars

\* ------------------------------------------------------------------ claims
\* The instant a stored timestamp denotes, in any of the notations.
InstantOf(text) == FromIsoFormat(RemoveUtcOffset(RemoveZ(text)))

StoreReturned(r) == r.op = "store_clients" /\ ~r.raised

\* C1: store_clients called twice in succession with the same batch returns,
\* the second time, new_records = 0 and duplicate_records = batch size, and
\* leaves the number of stored client rows unchanged.
C1_ResubmitIsNoOp ==
    [][(/\ StoreReturned(ret)
        /\ calls' = calls + 1
        /\ StoreReturned(ret')
        /\ ret'.batch = ret.batch)
       => (/\ ret'.new_records = 0
           /\ ret'.duplicate_records = Len(ret.batch)
           /\ BagCardinality(clients') = BagCardinality(clients))]_vars

\* C2: every store_clients call that returns appends exactly one
\* collection_runs row, whose clients_collected is the number of records
\* submitted, also when all are duplicates and when the batch is empty.
C2_OneRunRowPerCall ==
    [][(calls' = calls + 1 /\ StoreReturned(ret'))
       => (/\ Len(runs') = Len(runs) + 1
           /\ SubSeq(runs', 1, Len(runs)) = runs
           /\ runs'[Len(runs')].clients_collected = Len(ret'.batch))]_vars

\* C2 witness: a call whose records were all duplicates, two of them, has
\* returned and its run row counts both.
C2_Witness ==
    /\ StoreReturned(ret)
    /\ Len(ret.batch) = 2
    /\ ret.new_records = 0
    /\ runs[Len(runs)].clients_collected = 2

\* C3: no client row and no collection_runs row written by a store_clients
\* call that raised is ever durable.
C3_FailedBatchNeverDurable ==
    /\ \A r \in BagToSet(clients) : r.collected_at \notin failed
    /\ \A i \in 1 .. Len(runs) : runs[i].run_timestamp \notin failed

\* C4: get_latest_client_timestamp returns None exactly when no row is
\* stored, and otherwise a last_seen that no stored last_seen is later than.
C4_LatestIsChronologicalMax ==
    ret.op = "get_latest_client_timestamp"
    => /\ (ret.value = NoText) <=> (View = EmptyBag)
       /\ View # EmptyBag
          => \A r \in BagToSet(View) : InstantOf(r.last_seen) <= InstantOf(ret.value)

\* C5: get_clients_in_date_range(start, end) returns exactly the stored
\* records with start <= observed_at <= end, both inclusive, in ascending
\* order of observed_at.
C5_RangeIsInclusive ==
    ret.op = "get_clients_in_date_range"
    => LET within == { r \in BagToSet(View) :
                         /\ ret.start_date <= InstantOf(r.last_seen)
                         /\ InstantOf(r.last_seen) <= ret.end_date }
       IN  /\ {ret.clients[i] : i \in 1 .. Len(ret.clients)}
              = {ClientDict(r) : r \in SelectDistinct(within)}
           /\ \A i, j \in 1 .. Len(ret.clients) :
                 i < j => InstantOf(ret.clients[i].lastSeen)
                          <= InstantOf(ret.clients[j].lastSeen)

DedupKey(client) == <<client.mac, client.lastSeen, client.network.id>>

\* C6: get_clients_in_date_range and get_all_clients return at most one
\* record per dedup key, and get_all_clients returns them in descending
\* order of observed_at.
C6_OneRecordPerDedupKey ==
    ret.op \in {"get_clients_in_date_range", "get_all_clients"}
    => /\ \A i, j \in 1 .. Len(ret.clients) :
             i < j => DedupKey(ret.clients[i]) # DedupKey(ret.clients[j])
       /\ ret.op = "get_all_clients"
          => \A i, j \in 1 .. Len(ret.clients) :
                i < j => InstantOf(ret.clients[i].lastSeen)
                         >= InstantOf(ret.clients[j].lastSeen)

Planned == ret.op = "collect_client_data"
Incremental == Planned /\ ret.state = "Incremental"

\* now - (latest_observed_at - buffer) of a planned run, and the hours
\* needed: that gap, or the minimum when the gap is shorter.
PlannedGap == ret.utcnow - (InstantOf(ret.latest_timestamp) - BufferHours)
HoursNeeded == IF PlannedGap >= MinHours THEN PlannedGap ELSE MinHours

\* C7: collect_client_data is in Bootstrap, requesting the fixed window of 30
\* days, exactly when the store holds no record, and in Incremental whenever
\* a record is stored.
C7_BootstrapIffEmpty ==
    Planned
    => /\ (ret.state = "Bootstrap") <=> (View = EmptyBag)
       /\ (ret.state = "Incremental") <=> (View # EmptyBag)
       /\ ret.state = "Bootstrap" => ret.days_to_fetch = 30
       /\ (ret.state = "Bootstrap") <=> (ret.latest_timestamp = NoText)

\* C7 witness: a first run, on an empty store, that asked for 30 days.
C7_Witness ==
    Planned /\ ret.state = "Bootstrap" /\ View = EmptyBag /\ ret.days_to_fetch = 30

\* C8: the incremental planner returns between 1 and 30 days, also for a
\* latest timestamp ahead of now; for a latest timestamp 10 minutes old it
\* returns 1 day.
C8_WindowFromOneToThirtyDays ==
    Incremental
    => /\ ret.days_to_fetch \in 1 .. 30
       /\ ret.utcnow - InstantOf(ret.latest_timestamp) = 10 * TicksPerMinute
          => ret.days_to_fetch = 1

\* C8 witness: a run planned 10 minutes after the latest sighting.
C8_Witness ==
    /\ Incremental
    /\ ret.utcnow - InstantOf(ret.latest_timestamp) = 10 * TicksPerMinute
    /\ ret.days_to_fetch = 1

\* C9 as stated: the days requested are min(30, ceil(hours_needed / 24) + 1).
C9_CeilPlusOne ==
    Incremental
    => ret.days_to_fetch
       = Min(30, (HoursNeeded + TicksPerDay - 1) \div TicksPerDay + 1)

\* C9 amended: the days requested are min(30, floor(hours_needed / 24) + 1),
\* the hours rounded down to whole days and one day added.
C9_FloorPlusOne ==
    Incremental => ret.days_to_fetch = Min(30, HoursNeeded \div TicksPerDay + 1)

\* C9 witness: more than a day but no whole number of days is needed, and
\* the request is below the cap.
C9_Witness ==
    /\ Incremental
    /\ HoursNeeded > TicksPerDay
    /\ HoursNeeded % TicksPerDay # 0
    /\ ret.days_to_fetch < 30

\* C10: a window below the cap reaches back to latest_observed_at - buffer,
\* and a window that does not reach back that far is one of 30 days for a
\* gap of more than 30 days.
C10_WindowCoversGap ==
    Incremental
    => /\ ret.days_to_fetch < 30 => ret.days_to_fetch * TicksPerDay >= PlannedGap
       /\ ret.days_to_fetch * TicksPerDay < PlannedGap
          => ret.days_to_fetch = 30 /\ PlannedGap > 30 * TicksPerDay

\* C10 witness: after a pause of more than a day the request, below the cap,
\* covers the gap.
C10_Witness ==
    /\ Incremental
    /\ PlannedGap > TicksPerDay
    /\ ret.days_to_fetch < 30
    /\ ret.days_to_fetch * TicksPerDay >= PlannedGap

\* ------------------------------------------------------ aggregation claims
\* C17: is_randomized_mac returns true exactly when the identity has at
\* least two characters and its second character is one of 2, 6, A, E in
\* either case; it returns false for every other second character and for
\* an empty, absent or single-character identity.
C17_RandomizedIffSecondCharacter ==
    ret.op = "is_randomized_mac" =>
        LET mac_address == ret.mac_address
        IN  ret.result <=> /\ mac_address # NoText
                           /\ Len(mac_address) >= 2
                           /\ mac_address[2] \in {50, 54, 65, 69, 97, 101}

\* A lower-case "e" in the second place was found randomized.
C17_Witness ==
    /\ ret.op = "is_randomized_mac"
    /\ ret.mac_address # NoText /\ Len(ret.mac_address) >= 2
    /\ ret.mac_address[2] = 101
    /\ ret.result

\* The distinct identities and addresses among records, counted afresh.
Identities(records) ==
    {records[i].mac : i \in {j \in DOMAIN records : HasText(records[j].mac)}}

Addresses(records) ==
    {records[i].ip : i \in {j \in DOMAIN records : HasString(records[j].ip)}}

\* C18: count_unique_clients returns mac_ip_ratio exactly 1.0 when the
\* number of distinct addresses is 0, and otherwise the number of distinct
\* identities divided by the number of distinct addresses.
C18_RatioIsOneWithoutAddresses ==
    ret.op = "count_unique_clients" =>
        LET ratio == ret.result.mac_ip_ratio
            identities == Cardinality(Identities(ret.clients))
            addresses == Cardinality(Addresses(ret.clients))
        IN  /\ ratio.den > 0
            /\ IF addresses = 0 THEN ratio.num = ratio.den
               ELSE ratio.num * addresses = identities * ratio.den

\* Two identities and no address gave the ratio 1.0.
C18_Witness ==
    /\ ret.op = "count_unique_clients"
    /\ Cardinality(Identities(ret.clients)) = 2
    /\ Addresses(ret.clients) = {}
    /\ ret.result.mac_ip_ratio = Ratio(1, 1)

\* The Sunday on or before a day, as an ordinal (ordinal 7 was a Sunday).
SundayOnOrBefore(dt) == ToOrdinal(dt) - (ToOrdinal(dt) % 7)

\* All records carry a lastSeen that parses, within one Sunday-to-Saturday
\* week.
AllInOneWeek(records) ==
    /\ records # <<>>
    /\ \A i \in DOMAIN records : Filed(records[i])
    /\ \A i, j \in DOMAIN records :
          SundayOnOrBefore(ParseLastSeen(records[i].lastSeen))
              = SundayOnOrBefore(ParseLastSeen(records[j].lastSeen))

\* C11: an identity counts once in unique_macs however many records of it
\* there are; and for records that all fall in one Sunday-to-Saturday week
\* with k distinct identities, calculate_weekly_averages over 1 week gives
\* the unique-identity count k and weeks_sampled = 1.
C11_IdentityCountsOnce ==
    /\ ret.op = "count_unique_clients" =>
          ret.result.unique_macs = Cardinality(Identities(ret.clients))
    /\ (ret.op = "calculate_weekly_averages" /\ ret.num = 1
        /\ AllInOneWeek(ret.clients)) =>
          /\ ret.result.periods_sampled = 1
          /\ ret.result.details[1].unique_macs = Cardinality(Identities(ret.clients))
          /\ ret.result.avg_unique_mac_addresses
                = 100 * Cardinality(Identities(ret.clients))

\* Three records of two identities, one of them seen on the Sunday and on
\* the Saturday of the same week, gave the count 2 over 1 week sampled.
C11_Witness ==
    /\ ret.op = "calculate_weekly_averages" /\ ret.num = 1
    /\ AllInOneWeek(ret.clients)
    /\ Len(ret.clients) = 3
    /\ \E i, j \in DOMAIN ret.clients :
          /\ ret.clients[i].mac = ret.clients[j].mac
          /\ ret.clients[i].lastSeen # ret.clients[j].lastSeen
    /\ ret.result.periods_sampled = 1
    /\ ret.result.avg_unique_mac_addresses = 200

\* The bucket keys under which a record was filed.
KeysOf(grouped, record) == {k \in DOMAIN grouped : record \in Range(grouped[k])}

GroupingOps ==
    {"group_clients_by_day", "group_clients_by_week", "group_clients_by_month",
     "group_clients_by_hour"}

\* C13: for day, week, month and calendar-hour bucketing, the ascending
\* string order of the bucket keys is the chronological order of the
\* periods: every record of a bucket whose key sorts first was seen before
\* every record of a bucket whose key sorts later, also next to a change of
\* year.
C13_KeyOrderIsTimeOrder ==
    ret.op \in GroupingOps =>
        \A k1, k2 \in DOMAIN ret.result :
            TextLess(k1, k2) =>
                \A a \in Range(ret.result[k1]), b \in Range(ret.result[k2]) :
                    Seconds(ParseLastSeen(a.lastSeen))
                        < Seconds(ParseLastSeen(b.lastSeen))

\* Saturday 2024-01-06 and Sunday 2024-01-07 were filed under the week keys
\* "2023-W53" and "2024-W01".
C13_Witness ==
    /\ ret.op = "group_clients_by_week"
    /\ DOMAIN ret.result = { <<50, 48, 50, 51, 45, 87, 53, 51>>,
                             <<50, 48, 50, 52, 45, 87, 48, 49>> }
    /\ \A k \in DOMAIN ret.result :
          \A r \in Range(ret.result[k]) : ParseLastSeen(r.lastSeen).year = 2024

AveragingOps ==
    {"calculate_daily_averages", "calculate_weekly_averages",
     "calculate_monthly_averages"}

\* The buckets the averaging operation named op makes of records.
BucketsFor(op, records) ==
    IF op = "calculate_daily_averages" THEN GroupClientsByDay(records)
    ELSE IF op = "calculate_weekly_averages" THEN GroupClientsByWeek(records)
    ELSE GroupClientsByMonth(records)

\* The keys of the sampled buckets, in the order of the details.
SampledKeys(result) == [i \in DOMAIN result.details |-> result.details[i].period]

\* C14: for every window size N >= 0 and every input with B non-empty
\* buckets, the calculate_*_averages operations sample exactly min(N, B)
\* buckets, the most recent ones; when none is retained the result is the
\* absent value.
C14_SamplesMinOfWindowAndBuckets ==
    (ret.op \in AveragingOps /\ ret.num >= 0) =>
        LET keys == DOMAIN BucketsFor(ret.op, ret.clients)
            wanted == Min(ret.num, Cardinality(keys))
        IN  IF wanted = 0 THEN ret.result = NoResult
            ELSE /\ ret.result # NoResult
                 /\ ret.result.periods_sampled = wanted
                 /\ Len(ret.result.details) = wanted
                 /\ Range(SampledKeys(ret.result)) \subseteq keys
                 /\ \A k \in keys \ Range(SampledKeys(ret.result)) :
                       \A s \in Range(SampledKeys(ret.result)) : TextLess(k, s)

\* C15: given an empty input collection, each of calculate_daily_averages,
\* calculate_weekly_averages and calculate_monthly_averages returns the
\* absent value (None), not a zero-valued structure, whatever the window.
C15_EmptyInputGivesAbsent ==
    (ret.op \in AveragingOps /\ ret.clients = <<>>) => ret.result = NoResult

\* Each of the three operations has returned on an empty list; this one is
\* the weekly one with the window 7.
C15_Witness ==
    /\ ret.op = "calculate_weekly_averages"
    /\ ret.clients = <<>> /\ ret.num = 7
    /\ ret.result = NoResult

\* A record whose lastSeen is missing, null or unparsable.
Malformed(record) ==
    \/ record.lastSeen = Missing
    \/ record.lastSeen = NoText
    \/ ParseLastSeen(record.lastSeen).raised # None

WithoutMalformed(records) == SelectSeq(records, LAMBDA c : ~Malformed(c))

\* C16: a record whose lastSeen is missing, null or unparsable is left out
\* of every bucket and never aborts the pass: what calculate_*_averages,
\* calculate_hourly_stats and analyze_peak_hours return equals what they
\* return on the same input with the malformed records removed.
C16_MalformedRecordsAreLeftOut ==
    LET kept == WithoutMalformed(ret.clients)
    IN  /\ ret.op = "calculate_daily_averages" =>
              ret.result = CalculateDailyAverages(kept, ret.num)
        /\ ret.op = "calculate_weekly_averages" =>
              ret.result = CalculateWeeklyAverages(kept, ret.num)
        /\ ret.op = "calculate_monthly_averages" =>
              ret.result = CalculateMonthlyAverages(kept, ret.num)
        /\ ret.op = "calculate_hourly_stats" =>
              ret.result = CalculateHourlyStats(kept)
        /\ ret.op = "analyze_peak_hours" =>
              ret.result = AnalyzePeakHours(kept)

RECURSIVE SumField(_, _)
SumField(details, field) ==
    IF details = <<>> THEN 0
    ELSE Head(details)[field] + SumField(Tail(details), field)

Abs(n) == IF n < 0 THEN -n ELSE n

\* A value in hundredths is the quotient sum / count rounded to 2 decimals.
IsMeanTo2Decimals(hundredths, sum, count) ==
    2 * Abs(hundredths * count - 100 * sum) <= count

\* C19: each average reported by the calculate_*_averages operations is the
\* plain arithmetic mean of the per-bucket statistic over the sampled
\* buckets (sum of the per-bucket counts divided by the number of sampled
\* buckets, rounded to 2 decimals), never weighted by how many records each
\* bucket holds.
C19_AverageIsPlainMean ==
    (ret.op \in AveragingOps /\ ret.result # NoResult) =>
        LET details == ret.result.details
            Mean(avg, field) ==
                IsMeanTo2Decimals(ret.result[avg], SumField(details, field),
                                  Len(details))
        IN  /\ Mean("avg_unique_mac_addresses", "unique_macs")
            /\ Mean("avg_unique_ip_addresses", "unique_ips")
            /\ Mean("avg_randomized_macs", "randomized_macs")
            /\ Mean("avg_wireless_clients", "wireless_clients")
            /\ Mean("avg_wired_clients", "wired_clients")
            /\ \A i \in DOMAIN details :
                  [period |-> details[i].period]
                      @@ CountUniqueClients(
                            BucketsFor(ret.op, ret.clients)[details[i].period])
                  = details[i]

\* A day of one record with one identity and a day of two records with two
\* identities average 1.5 identities.
C19_Witness ==
    /\ ret.op = "calculate_daily_averages"
    /\ Len(ret.clients) = 3
    /\ ret.result # NoResult
    /\ ret.result.periods_sampled = 2
    /\ {ret.result.details[i].unique_macs : i \in 1 .. 2} = {1, 2}
    /\ ret.result.avg_unique_mac_addresses = 150

\* The identities whose second character is 2, 6, A or E in either case.
RandomizedIdentities(records) ==
    {m \in Identities(records) :
        Len(m) >= 2 /\ m[2] \in {50, 54, 65, 69, 97, 101}}

\* C20: analyze_mac_randomization counts over the whole input at once (not
\* per bucket, so records without a usable lastSeen count too) and returns
\* randomized_percentage = randomized_count / total_identities * 100 (to 2
\* decimals, here in hundredths of a percent), which is 0 when there are no
\* identities and always lies between 0 and 100.
C20_PercentageOfWholeInput ==
    ret.op = "analyze_mac_randomization" =>
        LET total == Cardinality(Identities(ret.clients))
            randomized == Cardinality(RandomizedIdentities(ret.clients))
            percentage == ret.result.randomized_percentage
        IN  /\ ret.result.total_macs_seen = total
            /\ ret.result.randomized_macs_detected = randomized
            /\ ret.result.total_ips_seen = Cardinality(Addresses(ret.clients))
            /\ IF total = 0 THEN percentage = 0
               ELSE IsMeanTo2Decimals(percentage, 100 * randomized, total)
            /\ percentage >= 0 /\ percentage <= 100 * 100

\* Three identities seen in different weeks or with no usable lastSeen, two
\* of them randomized: 66.67 percent.
C20_Witness ==
    /\ ret.op = "analyze_mac_randomization"
    /\ ret.result.total_macs_seen = 3
    /\ \E i \in DOMAIN ret.clients : Malformed(ret.clients[i])
    /\ ret.result.randomized_macs_detected = 2
    /\ ret.result.randomized_percentage = 6667

\* The instant a parsed lastSeen denotes: seconds since 2000-01-01 00:00:00
\* UTC.
InstantSeen(dt) == Seconds(dt) - dt.utcoffset * 60

\* C25: day bucketing depends only on the instant observed: two records
\* whose lastSeen texts denote the same instant, written with different UTC
\* offsets, are placed in the same day bucket.
C25_SameInstantSameDay ==
    ret.op = "group_clients_by_day" =>
        \A i, j \in FiledIndices(ret.clients) :
            LET a == ret.clients[i]
                b == ret.clients[j]
            IN  InstantSeen(ParseLastSeen(a.lastSeen))
                    = InstantSeen(ParseLastSeen(b.lastSeen))
                => KeysOf(ret.result, a) = KeysOf(ret.result, b)

\* C27: for non-empty input analyze_peak_hours builds exactly 24 hourly
\* totals, for the hours 0 to 23 in order, and the reported peak_hour is an
\* hour whose number of distinct identities seen is maximal among the 24.
C27_PeakHourHasMostIdentities ==
    (ret.op = "analyze_peak_hours" /\ ret.clients # <<>>) =>
        /\ Len(ret.result.hourly_totals) = 24
        /\ \A i \in 1 .. 24 : ret.result.hourly_totals[i].hour = i - 1
        /\ \E i \in 1 .. 24 :
              /\ ret.result.peak_hour = ret.result.hourly_totals[i]
              /\ \A j \in 1 .. 24 :
                    ret.result.hourly_totals[j].unique_macs
                        <= ret.result.hourly_totals[i].unique_macs

\* ------------------------------------------------------------ store claims
\* A submitted record that lacks its identity or its observed_at.
Incomplete(client) == client.mac = None \/ client.lastSeen = NoText

\* C29: store_clients returns new_records + duplicate_records = the number
\* of records submitted; a record without identity or without observed_at
\* is never stored and does not abort the batch: every other record of the
\* batch is processed, so that its dedup key is stored when the call returns.
C29_IncompleteRecordsAreDropped ==
    /\ \A r \in BagToSet(View) : r.mac_address # None /\ r.last_seen # NoText
    /\ StoreReturned(ret) =>
          /\ ret.new_records + ret.duplicate_records = Len(ret.batch)
          /\ \A i \in 1 .. Len(ret.batch) :
                ~Incomplete(ret.batch[i]) =>
                    \E r \in BagToSet(clients) :
                        <<r.mac_address, r.last_seen, r.network_id>>
                            = DedupKey(ret.batch[i])

\* A batch whose first record is incomplete and whose second is stored.
C29_Witness ==
    /\ StoreReturned(ret)
    /\ Len(ret.batch) = 2
    /\ Incomplete(ret.batch[1])
    /\ ~Incomplete(ret.batch[2])
    /\ ret.new_records = 1
    /\ ret.duplicate_records = 1
    /\ BagCardinality(clients) = 1

\* The dedup key of a stored row.
RowKey(row) == <<row.mac_address, row.last_seen, row.network_id>>

\* C21: a stored record is immutable: when store_clients is handed a record
\* whose dedup key is already stored with another address, the call returns
\* without error, the rows stored under that key are the same as before, and
\* the record is counted in duplicate_records.
C21_StoredRecordIsImmutable ==
    [][(calls' = calls + 1 /\ StoreReturned(ret'))
       => LET known == { i \in 1 .. Len(ret'.batch) :
                           \E r \in BagToSet(View) :
                               /\ RowKey(r) = DedupKey(ret'.batch[i])
                               /\ r.ip_address # ret'.batch[i].ip }
          IN  /\ \A i \in known :
                    { r \in BagToSet(clients') : RowKey(r) = DedupKey(ret'.batch[i]) }
                        = { r \in BagToSet(View) : RowKey(r) = DedupKey(ret'.batch[i]) }
              /\ ret'.duplicate_records >= Cardinality(known)]_vars

\* C30: over successful store_clients calls on an initially empty store,
\* get_stats reports total_records as the sum of the new_records returned
\* (0 at first, and each call adds what it returns), collection_runs as the
\* number of calls, unique_mac_addresses <= total_records, and
\* earliest_date no later than latest_date when there are records;
\* total_records and latest_date never decrease from one call to the next.
C30_StatsFollowTheCalls ==
    /\ [](failed = {} =>
             LET stats == DatabaseStats(View, runs)
             IN  /\ stats.collection_runs = calls
                 /\ stats.unique_mac_addresses <= stats.total_records
                 /\ calls = 0 => stats.total_records = 0
                 /\ stats.total_records > 0 =>
                       InstantOf(stats.earliest_date) <= InstantOf(stats.latest_date))
    /\ [][(failed' = {} /\ calls' = calls + 1 /\ StoreReturned(ret'))
          => LET before == DatabaseStats(View, runs)
                 after == DatabaseStats(clients', runs')
             IN  /\ after.total_records = before.total_records + ret'.new_records
                 /\ after.total_records >= before.total_records
                 /\ before.total_records > 0 =>
                       InstantOf(after.latest_date) >= InstantOf(before.latest_date)]_vars

\* ------------------------------------------------------------- pass claims
\* C23: every run of main that completes the upstream fetch appends
\* exactly one collection-run row, also when the fetch returned no record.
C23_OneRunRowPerPass ==
    [][(ret'.op = "main" /\ ret' # ret) => Len(runs') = Len(runs) + 1]_vars

\* C24: a pass of main plans, fetches, stores and aggregates in that order:
\* the window is planned from the store as it was before the pass stored
\* anything; with use_historical the working set is read after
\* store_clients has committed and holds every record accepted in the
\* pass; without it the working set is exactly the fetched batch; and the
\* working set is processed last, when it is not empty.
C24_PlanFetchStoreAggregate ==
    [][(ret'.op = "main" /\ ret' # ret)
       => /\ ret'.days_fetched =
                 (IF IsFirstRun(MaxLastSeen(clients)) THEN FirstRunDays
                  ELSE DaysToFetch(MaxLastSeen(clients), now, BufferHours, MinHours))
          /\ ret'.use_historical =>
                \A r \in BagToSet(clients') :
                    r.collected_at = ret'.collected_at =>
                        \E i \in 1 .. Len(ret'.clients) :
                            ret'.clients[i] = ClientDict(r)
          /\ ~ret'.use_historical => ret'.clients = ret'.clients_from_api
          /\ (ret'.ended = "processed") <=> (ret'.clients # <<>>)]_vars

\* A pass with use_historical that stored a record and read it back with
\* the record of an earlier pass.
C24_Witness ==
    /\ ret.op = "main"
    /\ ret.use_historical
    /\ ret.clients_from_api # <<>>
    /\ ret.ended = "processed"
    /\ Len(ret.clients) = 2
    /\ \E r \in BagToSet(clients) : r.collected_at = ret.collected_at

\* ---------------------------------------------------------- _make_request
\* (meraki_client.py)  Largest max_retries handed to _make_request.
MaxRetries == 3

\* What the upstream answers to one HTTP request: a status (200 with a JSON
\* body; 429 with Retry-After absent or a number of seconds; 429 with
\* Retry-After as an HTTP date; 404; a status raise_for_status raises for;
\* a status it does not raise for), or no response at all.
Responses ==
    {"200", "429", "429 Retry-After date", "404", "500", "204", "RequestException"}

\* The for loop of _make_request from the attempt-th pass on (attempt counts
\* from 0 as in range(max_retries)); responses[i] is the upstream's answer to
\* the i-th request of the call, and log the calls made so far.  Gives how
\* the call ends, with the log.
RECURSIVE Attempts(_, _, _, _)
Attempts(responses, max_retries, attempt, log) ==
    IF attempt >= max_retries
    THEN [raised |-> "Exception", value |-> None, log |-> log]
    ELSE LET response == responses[attempt + 1]
             called == log \o <<"_rate_limit", "request">>
             retry == attempt < max_retries - 1
         IN  CASE response = "200" ->
                    [raised |-> None, value |-> "json", log |-> called]
               [] response = "429" ->
                    Attempts(responses, max_retries, attempt + 1,
                             called \o <<"sleep">>)
               [] response = "429 Retry-After date" ->
                    [raised |-> "ValueError", value |-> None, log |-> called]
               [] response = "404" ->
                    [raised |-> None, value |-> None, log |-> called]
               [] response = "500" ->
                    IF retry
                    THEN Attempts(responses, max_retries, attempt + 1,
                                  called \o <<"sleep">>)
                    ELSE [raised |-> "HTTPError", value |-> None, log |-> called]
               [] response = "204" ->
                    Attempts(responses, max_retries, attempt + 1,
                             IF retry THEN called \o <<"sleep">> ELSE called)
               [] response = "RequestException" ->
                    IF retry
                    THEN Attempts(responses, max_retries, attempt + 1,
                                  called \o <<"sleep">>)
                    ELSE [raised |-> "RequestException", value |-> None,
                          log |-> called]

\* _make_request(method, endpoint, params, max_retries)
MakeRequest(responses, max_retries) == Attempts(responses, max_retries, 0, <<>>)

CallMakeRequest ==
    /\ HasArgs({"responses", "max_retries"})
    /\ Returned([op |-> "_make_request", responses |-> ret.responses,
                 max_retries |-> ret.max_retries,
                 result |-> MakeRequest(ret.responses, ret.max_retries)])

\* A call with max_retries, and what the upstream would answer to each of
\* the requests the call may issue.
RequestInit ==
    /\ clients = EmptyBag
    /\ runs = <<>>
    /\ txn = EmptyBag
    /\ calls = 0
    /\ failed = {}
    /\ now = T_End + TicksPerHour
    /\ ticks = 0
    /\ conns = [c \in Connections |-> Idle]
    /\ ret \in {[op |-> "args", responses |-> r, max_retries |-> n] :
                   r \in [1 .. MaxRetries -> Responses], n \in 0 .. MaxRetries}

RequestNext == CallMakeRequest

RequestSpec == RequestInit /\ [][RequestNext]_vars

\* The requests a call issued, as positions of its log.
RequestsIn(log) == {i \in DOMAIN log : log[i] = "request"}

\* C26: a call of _make_request issues at most max_retries requests, each
\* directly after a _rate_limit call, and ends in one of three ways: it
\* returns the body at the first status 200, it returns None at a 404, or it
\* raises once the request of the last attempt has failed.
C26_BoundedRetriesThreeOutcomes ==
    ret.op = "_make_request" =>
        LET result == ret.result
            issued == Cardinality(RequestsIn(result.log))
            answers == SubSeq(ret.responses, 1, issued)
        IN  /\ issued <= ret.max_retries
            /\ \A i \in RequestsIn(result.log) :
                  i > 1 /\ result.log[i - 1] = "_rate_limit"
            /\ \/ /\ result.raised = None /\ result.value = "json"
                  /\ answers[issued] = "200"
                  /\ \A i \in 1 .. issued - 1 : answers[i] # "200"
               \/ /\ result.raised = None /\ result.value = None
                  /\ answers[issued] = "404"
               \/ /\ result.raised # None
                  /\ issued = ret.max_retries
                  /\ issued > 0 => answers[issued] \notin {"200", "404"}

\* ------------------------------------------------------------ web endpoints
\* (web_app.py)  The parameters of the DataProcessor methods that the
\* endpoints call, by name.
ProcessorParameters ==
    [calculate_daily_averages |-> {"clients", "num_days"},
     calculate_weekly_averages |-> {"clients", "num_weeks"},
     calculate_monthly_averages |-> {"clients", "num_months"},
     analyze_mac_randomization |-> {"clients"}]

\* processor.function(clients, keyword=num): Python raises TypeError for a
\* keyword that names no parameter of the function; otherwise the value is
\* that of the function, carried here as the call that computes it.
CallProcessor(function, keyword, num) ==
    IF keyword \in ProcessorParameters[function]
    THEN [raised |-> None, value |-> [function |-> function, num |-> num]]
    ELSE [raised |-> "TypeError", value |-> None]

\* jsonify(...), status
Response(status, body) == [status |-> status, body |-> body]

\* The part the three endpoints share: ClientDatabase() and get_all_clients()
\* on a connection of the request's own, 404 for an empty store, and 500 for
\* whatever is raised (storage_fails: sqlite3 raising in either call).
Respond(endpoint, storage_fails, computed, body) ==
    /\ txn = EmptyBag
    /\ ret' = [op |-> endpoint, storage_fails |-> storage_fails,
               response |->
                   IF storage_fails
                   THEN Response(500, [error |-> "sqlite3.Error"])
                   ELSE IF clients = EmptyBag
                   THEN Response(404, [error |-> "No data available"])
                   ELSE IF \E i \in DOMAIN computed : computed[i].raised # None
                   THEN Response(500,
                            [error |-> computed[CHOOSE i \in DOMAIN computed :
                                           /\ computed[i].raised # None
                                           /\ \A j \in 1 .. i - 1 :
                                                 computed[j].raised = None].raised])
                   ELSE Response(200, body)]
    /\ UNCHANGED <<conns, clients, runs, txn, calls, failed, clock>>

\* GET /api/stats/summary
GetSummaryStats(storage_fails) ==
    LET daily == CallProcessor("calculate_daily_averages", "days", 7)
        weekly == CallProcessor("calculate_weekly_averages", "weeks", 4)
        monthly == CallProcessor("calculate_monthly_averages", "months", 3)
        stats == DatabaseStats(clients, runs)
    IN  Respond("get_summary_stats", storage_fails, <<daily, weekly, monthly>>,
                [daily |-> daily.value, weekly |-> weekly.value,
                 monthly |-> monthly.value,
                 database |-> [total_records |-> stats.total_records,
                               unique_macs |-> stats.unique_mac_addresses,
                               earliest_date |-> stats.earliest_date,
                               latest_date |-> stats.latest_date]])

\* GET /api/stats/weekly?weeks=...
GetWeeklyDetails(weeks, storage_fails) ==
    LET weekly_data == CallProcessor("calculate_weekly_averages", "weeks", weeks)
    IN  Respond("get_weekly_details", storage_fails, <<weekly_data>>,
                [weekly_data |-> weekly_data.value, weeks_requested |-> weeks])

\* GET /api/stats/monthly?months=...
GetMonthlyDetails(months, storage_fails) ==
    LET monthly_data == CallProcessor("calculate_monthly_averages", "months", months)
    IN  Respond("get_monthly_details", storage_fails, <<monthly_data>>,
                [monthly_data |-> monthly_data.value, months_requested |-> months])

\* The numbers of weeks and months asked for: the defaults and one other.
WeeksRequested == {4, 52}
MonthsRequested == {3, 12}

\* Requests to the dashboard while the collector stores batches.
WebNext ==
    \/ \E batch \in Batches(ApiClients) : StoreReturns(batch, 30)
    \/ \E storage_fails \in BOOLEAN : GetSummaryStats(storage_fails)
    \/ \E weeks \in WeeksRequested, storage_fails \in BOOLEAN :
          GetWeeklyDetails(weeks, storage_fails)
    \/ \E months \in MonthsRequested, storage_fails \in BOOLEAN :
          GetMonthlyDetails(months, storage_fails)

WebSpec == Init /\ [][WebNext]_vars

WebEndpoints == {"get_summary_stats", "get_weekly_details", "get_monthly_details"}

\* C28: with at least one record in the store the endpoints
\* /api/stats/summary, /api/stats/weekly and /api/stats/monthly answer 200
\* with the averages; they answer 404 only for an empty store and 500 only
\* when the storage or the processing fails.
C28_NonEmptyStoreAnswers200 ==
    ret.op \in WebEndpoints =>
        /\ (clients # EmptyBag /\ ~ret.storage_fails) => ret.response.status = 200
        /\ ret.response.status = 404 => clients = EmptyBag
        /\ ret.response.status = 500 =>
              ret.storage_fails \/ ret.response.body.error = "TypeError"

\* ------------------------------------------------------ concurrency claims
\* Both connections have returned from calls that ran at the same time on
\* batches with a dedup key in common.
BothReturnedConcurrently ==
    /\ \A c \in Connections : conns[c].pc = "returned" /\ conns[c].overlapped
    /\ \E i \in DOMAIN conns["A"].batch, j \in DOMAIN conns["B"].batch :
          DedupKey(conns["A"].batch[i]) = DedupKey(conns["B"].batch[j])

\* C22: when two store_clients calls run concurrently on the same database
\* with overlapping batches, every dedup key is stored at most once, no
\* stored row is overwritten or removed by the later writer, and every call
\* that returns has appended a collection-run row of its own with the
\* number of records it was handed.
C22_ConcurrentCallsAbsorbDuplicates ==
    /\ [](BothReturnedConcurrently =>
             \A r \in BagToSet(clients) :
                 /\ CopiesIn(r, clients) = 1
                 /\ \A q \in BagToSet(clients) : RowKey(q) = RowKey(r) => q = r)
    /\ [](\A c \in Connections :
             conns[c].pc = "returned" =>
                 \E i \in 1 .. Len(runs) :
                     /\ runs[i].run_timestamp = conns[c].collected_at
                     /\ runs[i].clients_collected = Len(conns[c].batch))
    /\ [][\A r \in BagToSet(clients) :
             CopiesIn(r, clients') >= CopiesIn(r, clients)]_vars

====
